---- MODULE Spec2Model ----
(***************************************************************************)
(* The contract-call argument parser of ethereal (package funcparser):     *)
(* the methodListener that turns the grammar's structural events into a    *)
(* typed argument list.  The listener is the record l; the grammar walker  *)
(* that fires the events is the driver (pc, nest, topArgs).                *)
(***************************************************************************)
EXTENDS Integers, Sequences, FiniteSets, TLC

\* ------------------------------------------------------------------ bounds
\* most arguments one call text holds, array elements at every level included
MaxNodes == 6
\* deepest bracket nesting of one array literal
MaxNest == 3
\* most slice and array wrappers around the scalar of one built type
MaxWrap == 3

\* ------------------------------------------------------------- abi.Type
Scalar(t, size) == [T |-> t, Size |-> size]
SliceOf(e) == [T |-> "SliceTy", Elem |-> e]
ArrayOf(e) == [T |-> "ArrayTy", Elem |-> e]

Uint8 == Scalar("UintTy", 8)
Uint256 == Scalar("UintTy", 256)
Int16 == Scalar("IntTy", 16)
Int256 == Scalar("IntTy", 256)
BoolT == Scalar("BoolTy", 0)
StringT == Scalar("StringTy", 0)
AddressT == Scalar("AddressTy", 20)
FunctionT == Scalar("FunctionTy", 24)

\* baseType strips slice and array wrappers until a scalar type remains.
RECURSIVE baseType(_)
baseType(inputType) ==
    CASE inputType.T = "SliceTy" -> baseType(inputType.Elem)
      [] inputType.T = "ArrayTy" -> baseType(inputType.Elem)
      [] OTHER -> inputType

\* arrayLevel that counts the slices only
RECURSIVE arrayLevelSlicesOnly(_)
arrayLevelSlicesOnly(inputType) ==
    CASE inputType.T = "SliceTy" -> 1 + arrayLevelSlicesOnly(inputType.Elem)
      [] inputType.T = "ArrayTy" -> arrayLevelSlicesOnly(inputType.Elem)
      [] OTHER -> 0

\* arrayLevel returns the number of levels of array in the type.
RECURSIVE arrayLevel(_)
arrayLevel(inputType) ==
    IF inputType.T \in {"SliceTy", "ArrayTy"}
    THEN 1 + arrayLevel(inputType.Elem)
    ELSE 0

\* ------------------------------------------------------------ the contract
Method(name, inputs) == [Name |-> name, Inputs |-> inputs]

\* The contract interface the listener is constructed with: the methods of
\* the parser's examples and one method per array shape.
Abi ==
    [Constructor |-> Method("", <<StringT, SliceOf(Uint8)>>),
     Methods |->
        [name \in {"transfer", "setValues", "f", "g", "noargs", "matrix",
                   "cube", "pair", "fixed", "callback", "mixed", "sum",
                   "deep"} |->
           CASE name = "transfer"  -> Method(name, <<AddressT, Uint256>>)
             [] name = "setValues" -> Method(name, <<SliceOf(Uint8)>>)
             [] name = "f"         -> Method(name, <<Uint256>>)
             [] name = "g"         -> Method(name, <<BoolT>>)
             [] name = "noargs"    -> Method(name, <<>>)
             [] name = "matrix"    -> Method(name, <<SliceOf(SliceOf(Uint8))>>)
             [] name = "cube"      -> Method(name, <<SliceOf(SliceOf(SliceOf(Int16)))>>)
             [] name = "pair"      -> Method(name, <<SliceOf(ArrayOf(Uint8)), SliceOf(BoolT)>>)
             [] name = "fixed"     -> Method(name, <<ArrayOf(AddressT), Uint8>>)
             [] name = "callback"  -> Method(name, <<SliceOf(FunctionT)>>)
             [] name = "mixed"     -> Method(name, <<Uint8, SliceOf(Int16)>>)
             [] name = "sum"       -> Method(name, <<SliceOf(Uint256), SliceOf(Int256)>>)
             [] name = "deep"      -> Method(name, <<SliceOf(SliceOf(SliceOf(Int16))), Uint8>>)]]

\* the texts the grammar can hand to EnterFuncName
FuncNames == DOMAIN Abi.Methods \cup {"constructor", "missing"}

\* --------------------------------------------------------------- errors
NoErr == "nil"
ErrUnknownMethod == "unknown method name"
ErrTooManyArgsAt == "too many arguments for method at"
ErrTooManyArgs == "too many arguments (expected n)"
ErrUnexpectedType == "unexpected type"
ErrUnhandledArrayType == "unhandled array type"
ErrUnhandledNesting == "unhandled nesting level"
ErrRange == "RangeError"
ErrFormat == "FormatError"

NoMethod == Method("<nil>", <<>>)

\* ------------------------------------------------------------ Go values
\* A scalar is a value of level 0 whose v is the coerced literal; a
\* container of level n >= 1 is a slice nested n deep whose v is the
\* sequence of its elements.  T is the Go element type at the bottom.
Value(t, level, v) == [T |-> t, level |-> level, v |-> v]

\* The Go element type the type switches of pushArg, ExitArrayArg and
\* makeArray select for a base type; their default case is interface{}.
ElemType(bt) ==
    CASE bt.T = "IntTy" ->
           (CASE bt.Size = 8 -> "int8"
              [] bt.Size = 16 -> "int16"
              [] bt.Size = 32 -> "int32"
              [] bt.Size = 64 -> "int64"
              [] OTHER -> "*big.Int")
      [] bt.T = "UintTy" ->
           (CASE bt.Size = 8 -> "uint8"
              [] bt.Size = 16 -> "uint16"
              [] bt.Size = 32 -> "uint32"
              [] bt.Size = 64 -> "uint64"
              [] OTHER -> "*big.Int")
      [] bt.T = "BoolTy" -> "bool"
      [] bt.T = "StringTy" -> "string"
      [] bt.T = "AddressTy" -> "common.Address"
      [] bt.T = "HashTy" -> "common.Hash"
      [] bt.T \in {"BytesTy", "FixedBytesTy"} -> "[]byte"
      [] OTHER -> "interface{}"

Result(val, e) == [val |-> val, err |-> e]
NoValue == Value("nil", 0, 0)

\* makeArray builds the empty container of the given nesting level.
makeArray(bt, level) ==
    IF level = 2 \/ level = 1
    THEN IF ElemType(bt) = "interface{}"
         THEN Result(NoValue, ErrUnhandledArrayType)
         ELSE Result(Value(ElemType(bt), level, <<>>), NoErr)
    ELSE Result(NoValue, ErrUnhandledNesting)

\* ------------------------------------------------- literal coercion
\* The literal texts the grammar's tokens carry: a decimal literal is
\* modelled by the number it spells, a hex literal by the number of bytes
\* it encodes.
IntTexts == {1, 300}
BoolTexts == {"true", "maybe"}
StringTexts == {"abc"}
HexTexts == {20, 32}

\* StrToInt: a signed decimal literal of the declared width.  Widths of
\* 32 bits and more hold every literal of IntTexts.
StrToInt(bt, text) ==
    LET fits == CASE bt.Size = 8 -> text \in -128..127
                  [] bt.Size = 16 -> text \in -32768..32767
                  [] OTHER -> TRUE
    IN  IF fits THEN Result(Value(ElemType(bt), 0, text), NoErr)
        ELSE Result(NoValue, ErrRange)

\* StrToUint: an unsigned decimal literal of the declared width.
StrToUint(bt, text) ==
    LET fits == CASE bt.Size = 8 -> text \in 0..255
                  [] bt.Size = 16 -> text \in 0..65535
                  [] OTHER -> text >= 0
    IN  IF fits THEN Result(Value(ElemType(bt), 0, text), NoErr)
        ELSE Result(NoValue, ErrRange)

\* StrToBool: "true" or "false", whatever the declared type.
StrToBool(bt, text) ==
    IF text \in {"true", "false"}
    THEN Result(Value("bool", 0, text), NoErr)
    ELSE Result(NoValue, ErrFormat)

\* StrToStr: the literal text, verbatim; never fails.
StrToStr(bt, text) == Result(Value("string", 0, text), NoErr)

\* StrToAddress: exactly 20 bytes of hex.
StrToAddress(bt, text) ==
    IF text = 20 THEN Result(Value("common.Address", 0, text), NoErr)
    ELSE Result(NoValue, ErrFormat)

\* StrToHash: exactly 32 bytes of hex.
StrToHash(bt, text) ==
    IF text = 32 THEN Result(Value("common.Hash", 0, text), NoErr)
    ELSE Result(NoValue, ErrFormat)

\* StrToBytes: hex-decoded bytes; a fixed size must match the length.
StrToBytes(bt, text) ==
    IF bt.T = "FixedBytesTy" /\ bt.Size # text
    THEN Result(NoValue, ErrFormat)
    ELSE Result(Value("[]byte", 0, text), NoErr)

\* the coercion EnterIntArg calls for an integer base type
IntCoercion(bt, text) ==
    IF bt.T = "IntTy" THEN StrToInt(bt, text) ELSE StrToUint(bt, text)

\* the coercion EnterHexArg calls for an address, hash or bytes base type
HexCoercion(bt, text) ==
    CASE bt.T = "AddressTy" -> StrToAddress(bt, text)
      [] bt.T = "HashTy" -> StrToHash(bt, text)
      [] OTHER -> StrToBytes(bt, text)

\* ------------------------------------------------------- methodListener
\* newMethodListener: curArg 0, no arguments, no error, no method yet.
\* panic is not a field of the struct: it records that a handler ended in
\* a Go runtime panic, which unwinds the walk.
newMethodListener ==
    [method |-> NoMethod, curArg |-> 0, curArray |-> <<>>,
     maxArrayLevel |-> 0, args |-> <<>>, err |-> NoErr, panic |-> FALSE]

Panic(l) == [l EXCEPT !.panic = TRUE]
SetErr(l, e) == [l EXCEPT !.err = e]

\* l.method.Inputs[l.curArg] is in range
HasInput(l) == l.curArg >= 0 /\ l.curArg < Len(l.method.Inputs)
\* l.method.Inputs[l.curArg].Type (Go indexes from 0)
Input(l) == l.method.Inputs[l.curArg + 1]

Last(s) == s[Len(s)]
ButLast(s) == SubSeq(s, 1, Len(s) - 1)
AppendTo(c, x) == [c EXCEPT !.v = Append(c.v, x)]

\* The type assertion frame.([]...[]E) with `level` brackets.
IsSliceOf(frame, elem, level) == frame.T = elem /\ frame.level = level

\* EnterFuncName without the special case for the constructor
EnterFuncNameNoConstructor(l, text) ==
    IF text \in DOMAIN Abi.Methods
    THEN [l EXCEPT !.method = Abi.Methods[text]]
    ELSE SetErr(l, ErrUnknownMethod)

EnterFuncName(l, text) ==
    IF text = "constructor"
    THEN [l EXCEPT !.method = Abi.Constructor]
    ELSE IF text \in DOMAIN Abi.Methods
         THEN [l EXCEPT !.method = Abi.Methods[text]]
         ELSE SetErr(l, ErrUnknownMethod)

\* pushArg that puts a top-level value at the head of args
pushArgHeadOfArgs(l, arg) ==
    IF Len(l.curArray) = 0
    THEN [l EXCEPT !.args = <<arg>> \o l.args]
    ELSE IF ~HasInput(l) THEN Panic(l)
    ELSE LET elem == ElemType(baseType(Input(l)))
             top == Last(l.curArray)
             ok == /\ IsSliceOf(top, elem, 1)
                   /\ (elem = "interface{}" \/ IsSliceOf(arg, elem, 0))
         IN  IF ok
             THEN [l EXCEPT !.curArray[Len(l.curArray)] = AppendTo(top, arg)]
             ELSE Panic(l)

pushArg(l, arg) ==
    IF Len(l.curArray) = 0
    THEN [l EXCEPT !.args = Append(l.args, arg)]
    ELSE IF ~HasInput(l) THEN Panic(l)
    ELSE LET elem == ElemType(baseType(Input(l)))
             top == Last(l.curArray)
             ok == /\ IsSliceOf(top, elem, 1)
                   /\ (elem = "interface{}" \/ IsSliceOf(arg, elem, 0))
         IN  IF ok
             THEN [l EXCEPT !.curArray[Len(l.curArray)] = AppendTo(top, arg)]
             ELSE Panic(l)

\* the tail of the scalar handlers that forgets the coercion's error
PushOrFailDropsError(l, r) == IF r.err # NoErr THEN l ELSE pushArg(l, r.val)

\* the tail shared by the four scalar handlers
PushOrFail(l, r) == IF r.err # NoErr THEN SetErr(l, r.err) ELSE pushArg(l, r.val)

\* EnterIntArg that coerces an integer literal whatever the base type
EnterIntArgAnyType(l, text) ==
    IF l.err # NoErr THEN l
    ELSE IF ~HasInput(l) THEN Panic(l)
    ELSE LET bt == baseType(Input(l))
         IN  PushOrFail(l, CASE bt.T = "UintTy" -> StrToUint(bt, text)
                             [] OTHER -> StrToInt(bt, text))

EnterIntArg(l, text) ==
    IF l.err # NoErr THEN l
    ELSE IF ~HasInput(l) THEN Panic(l)
    ELSE LET bt == baseType(Input(l))
         IN  PushOrFail(l, CASE bt.T = "IntTy" -> StrToInt(bt, text)
                             [] bt.T = "UintTy" -> StrToUint(bt, text)
                             [] OTHER -> Result(NoValue, ErrUnexpectedType))

EnterBoolArg(l, text) ==
    IF l.err # NoErr THEN l
    ELSE IF ~HasInput(l) THEN Panic(l)
    ELSE PushOrFail(l, StrToBool(baseType(Input(l)), text))

EnterStringArg(l, text) ==
    IF l.err # NoErr THEN l
    ELSE IF ~HasInput(l) THEN Panic(l)
    ELSE PushOrFail(l, StrToStr(baseType(Input(l)), text))

EnterHexArg(l, text) ==
    IF l.err # NoErr THEN l
    ELSE IF ~HasInput(l) THEN Panic(l)
    ELSE LET bt == baseType(Input(l))
         IN  PushOrFail(l, CASE bt.T = "AddressTy" -> StrToAddress(bt, text)
                             [] bt.T = "HashTy" -> StrToHash(bt, text)
                             [] bt.T \in {"BytesTy", "FixedBytesTy"} -> StrToBytes(bt, text)
                             [] OTHER -> Result(NoValue, ErrUnexpectedType))

\* the loop of EnterArrayArg run from the innermost level outwards
RECURSIVE OpenLevelsFrom(_, _, _, _)
OpenLevelsFrom(l, bt, from, level) ==
    IF from > level THEN l
    ELSE LET r == makeArray(bt, from)
         IN  IF r.err # NoErr THEN SetErr(l, r.err)
             ELSE OpenLevelsFrom([l EXCEPT !.curArray = Append(l.curArray, r.val)],
                                 bt, from + 1, level)

OpenLevelsInnermostFirst(l, bt, level) == OpenLevelsFrom(l, bt, 1, level)

\* the loop of EnterArrayArg: one makeArray per missing level, outermost
\* first, stopping at the first error
RECURSIVE OpenLevels(_, _, _)
OpenLevels(l, bt, level) ==
    IF level <= 0 THEN l
    ELSE LET r == makeArray(bt, level)
         IN  IF r.err # NoErr THEN SetErr(l, r.err)
             ELSE OpenLevels([l EXCEPT !.curArray = Append(l.curArray, r.val)],
                             bt, level - 1)

\* EnterArrayArg that opens every level again on re-entry
EnterArrayArgAlwaysNew(l) ==
    IF l.err # NoErr THEN l
    ELSE IF Len(l.method.Inputs) <= l.curArg THEN SetErr(l, ErrTooManyArgsAt)
    ELSE OpenLevels([l EXCEPT !.maxArrayLevel = arrayLevel(Input(l))],
                    baseType(Input(l)), arrayLevel(Input(l)))

\* EnterArrayArg that does not record the depth of a new array
EnterArrayArgKeepsMax(l) ==
    IF l.err # NoErr THEN l
    ELSE IF Len(l.method.Inputs) <= l.curArg THEN SetErr(l, ErrTooManyArgsAt)
    ELSE OpenLevels(l, baseType(Input(l)), arrayLevel(Input(l)) - Len(l.curArray))

\* EnterArrayArg that opens one level for each bracket
EnterArrayArgOneLevel(l) ==
    IF l.err # NoErr THEN l
    ELSE IF Len(l.method.Inputs) <= l.curArg THEN SetErr(l, ErrTooManyArgsAt)
    ELSE LET bt == baseType(Input(l))
             level == arrayLevel(Input(l)) - Len(l.curArray)
             r == makeArray(bt, level)
         IN  IF level <= 0 THEN l
             ELSE IF r.err # NoErr THEN SetErr(l, r.err)
             ELSE [l EXCEPT !.curArray = Append(l.curArray, r.val),
                            !.maxArrayLevel = IF Len(l.curArray) = 0
                                              THEN arrayLevel(Input(l))
                                              ELSE l.maxArrayLevel]

EnterArrayArg(l) ==
    IF l.err # NoErr THEN l
    ELSE IF Len(l.method.Inputs) <= l.curArg THEN SetErr(l, ErrTooManyArgsAt)
    ELSE LET bt == baseType(Input(l))
             level == arrayLevel(Input(l))
         IN  IF Len(l.curArray) = 0
             THEN OpenLevels([l EXCEPT !.maxArrayLevel = level], bt, level)
             ELSE OpenLevels(l, bt, level - Len(l.curArray))

\* the type-dispatched append of ExitArrayArg for a child of nesting
\* level `level`: curArray[parent] = append(curArray[parent], curArray[child])
AppendChild(l, elem, level) ==
    LET n == Len(l.curArray)
    IN  IF n < 2 THEN Panic(l)
        ELSE LET parent == l.curArray[n - 1]
                 child == l.curArray[n]
                 ok == IF elem = "interface{}"
                       THEN /\ IsSliceOf(parent, elem, level)
                            /\ (level = 1 \/ IsSliceOf(child, elem, level - 1))
                       ELSE /\ IsSliceOf(parent, elem, level + 1)
                            /\ IsSliceOf(child, elem, level)
             IN  IF ok
                 THEN [l EXCEPT !.curArray[n - 1] = AppendTo(parent, child)]
                 ELSE Panic(l)

\* l.curArray = l.curArray[:len(l.curArray)-1]
PopFrame(l) ==
    IF l.panic THEN l
    ELSE IF Len(l.curArray) = 0 THEN Panic(l)
    ELSE [l EXCEPT !.curArray = ButLast(l.curArray)]

\* ExitArrayArg that pops the only frame without handing it to args
ExitArrayArgDropsValue(l) ==
    IF l.err # NoErr THEN l
    ELSE IF Len(l.curArray) = 1
         THEN PopFrame(l)
         ELSE IF ~HasInput(l) THEN Panic(l)
         ELSE LET elem == ElemType(baseType(Input(l)))
                  level == l.maxArrayLevel + 1 - Len(l.curArray)
              IN  IF level = 1 \/ level = 2
                  THEN PopFrame(AppendChild(l, elem, level))
                  ELSE PopFrame(l)

ExitArrayArg(l) ==
    IF l.err # NoErr THEN l
    ELSE IF Len(l.curArray) = 1
         THEN PopFrame([l EXCEPT !.args = Append(l.args, l.curArray[1])])
         ELSE IF ~HasInput(l) THEN Panic(l)
         ELSE LET elem == ElemType(baseType(Input(l)))
                  level == l.maxArrayLevel + 1 - Len(l.curArray)
              IN  IF level = 1 \/ level = 2
                  THEN PopFrame(AppendChild(l, elem, level))
                  ELSE PopFrame(l)

EnterArg(l) ==
    IF l.err # NoErr THEN l
    ELSE IF l.curArg >= Len(l.method.Inputs) THEN SetErr(l, ErrTooManyArgs)
    ELSE l

\* ExitArg without the check of the sticky error
ExitArgUnguarded(l) ==
    IF Len(l.curArray) = 0 THEN [l EXCEPT !.curArg = l.curArg + 1] ELSE l

\* ExitArg that never advances the argument index
ExitArgNeverAdvances(l) == l

\* ExitArg that advances the argument index inside an array too
ExitArgAlwaysAdvances(l) ==
    IF l.err # NoErr THEN l ELSE [l EXCEPT !.curArg = l.curArg + 1]

ExitArg(l) ==
    IF l.err # NoErr THEN l
    ELSE IF Len(l.curArray) = 0 THEN [l EXCEPT !.curArg = l.curArg + 1]
    ELSE l

\* ------------------------------------------------- the grammar's walk
\* l: the methodListener.  pc: "start" before the function name, "args"
\* while the argument list is walked, "done" at the end of the call text,
\* "aborted" when a handler panicked.  nest: the open constructs of the
\* parse tree, outermost first, each an arg (n = 1 once it has its literal)
\* or an array literal (n = 1 once it has an element).  topArgs: the
\* top-level arguments started so far.  nodes: the arguments started so
\* far at any level.  lastEvent: the event fired last.
\* History of the call text, read by the properties only: funcName, the
\* text of the function name; kindAgrees, whether every scalar literal so
\* far had a kind its declared parameter's base type accepts and could be
\* coerced; shapeAgrees, whether every literal so far stood at the bracket
\* nesting its declared parameter asks for; frameBase, for each frame of
\* l.curArray the base type makeArray was given when it opened the frame;
\* emptyLiteral, whether the call text held an array literal with no
\* element; literal, the values the call text has spelled so far under the
\* declared types: literal[1] holds the finished top-level values and every
\* further entry the elements so far of one open array literal, outermost
\* first.  literal is <<>> once a literal disagreed with its declared
\* parameter or a handler panicked; lastText, the text of the
\* literal when the event fired last was a scalar literal, <<>> otherwise.
VARIABLES l, pc, nest, topArgs, nodes, lastEvent, funcName, kindAgrees,
          shapeAgrees, frameBase, emptyLiteral, literal, lastText

\* The type introspection on its own: tyKind, a scalar type; tyWraps, the
\* wrappers put around it so far, innermost first; tyArg, the abi.Type
\* built from them, the argument of baseType and arrayLevel; tyBase and
\* tyLevel, what the two functions returned; tyPc: "idle" while a call
\* text is parsed, "build" while the type is built, "based" after
\* baseType, "done" after arrayLevel.
VARIABLES tyKind, tyWraps, tyArg, tyBase, tyLevel, tyPc

walkVars == <<l, pc, nest, topArgs, nodes, lastEvent, funcName, kindAgrees,
              shapeAgrees, frameBase, emptyLiteral, literal, lastText>>
typeVars == <<tyKind, tyWraps, tyArg, tyBase, tyLevel, tyPc>>

vars == <<l, pc, nest, topArgs, nodes, lastEvent, funcName, kindAgrees,
          shapeAgrees, frameBase, emptyLiteral, literal, lastText,
          tyKind, tyWraps, tyArg, tyBase, tyLevel, tyPc>>

Open(k, n) == [k |-> k, n |-> n]
TopIs(k) == nest # <<>> /\ Last(nest).k = k
SetTop(s, n) == [s EXCEPT ![Len(s)].n = n]
\* the array literals open around the current position
ArrayNesting(s) == Cardinality({i \in 1..Len(s) : s[i].k = "array"})

\* the parameter the method declares for the top-level argument being walked
HasDeclared == topArgs >= 1 /\ topArgs <= Len(l.method.Inputs)
Declared == l.method.Inputs[topArgs]

\* the declared base type accepts a literal of one of the kinds, and the
\* coercion r of its text succeeded
KindAgrees(kinds, r) ==
    /\ HasDeclared
    /\ baseType(Declared).T \in kinds
    /\ r.err = NoErr

\* a scalar literal stands where the declared type has its scalar
ScalarPlaceAgrees ==
    /\ HasDeclared
    /\ ArrayNesting(nest) = arrayLevel(Declared)

\* an opening bracket stands where the declared type has an array level
BracketAgrees ==
    /\ HasDeclared
    /\ ArrayNesting(nest) < arrayLevel(Declared)

\* every literal so far agreed with its declared parameter
agrees == kindAgrees /\ shapeAgrees

\* no type is being built
NoType == Scalar("<nil>", 0)
TypeIdle ==
    /\ tyKind = NoType
    /\ tyWraps = <<>>
    /\ tyArg = NoType
    /\ tyBase = NoType
    /\ tyLevel = 0
    /\ tyPc = "idle"

Init ==
    /\ TypeIdle
    /\ l = newMethodListener
    /\ pc = "start"
    /\ nest = <<>>
    /\ topArgs = 0
    /\ nodes = 0
    /\ lastEvent = "none"
    /\ funcName = ""
    /\ kindAgrees = TRUE
    /\ shapeAgrees = TRUE
    /\ frameBase = <<>>
    /\ emptyLiteral = FALSE
    /\ literal = <<<<>>>>
    /\ lastText = <<>>

\* the base types of the frames after an event: frames the event opened
\* were made from the base type of the parameter at the index it read
TrackFrames(newL) ==
    LET was == Len(l.curArray)
        now == Len(newL.curArray)
    IN  IF now <= was THEN SubSeq(frameBase, 1, now)
        ELSE frameBase \o [i \in 1..(now - was) |-> baseType(Input(l))]

\* One event: the handler's result becomes the listener; a panic ends the
\* walk where it stands.
Fire(event, newL, newNest, newTopArgs, kindOk, shapeOk) ==
    /\ l' = newL
    /\ lastEvent' = event
    /\ kindAgrees' = (kindAgrees /\ kindOk)
    /\ shapeAgrees' = (shapeAgrees /\ shapeOk)
    /\ frameBase' = TrackFrames(newL)
    /\ emptyLiteral' = (emptyLiteral \/ (event = "ExitArrayArg" /\ Last(nest).n = 0))
    /\ UNCHANGED funcName
    /\ UNCHANGED typeVars
    /\ nodes' = IF event = "EnterArg" THEN nodes + 1 ELSE nodes
    /\ IF newL.panic
       THEN pc' = "aborted" /\ UNCHANGED <<nest, topArgs>>
       ELSE pc' = "args" /\ nest' = newNest /\ topArgs' = newTopArgs

\* the call text spells one more value x at the current position
SpellValue(x) ==
    IF literal = <<>> THEN <<>>
    ELSE [literal EXCEPT ![Len(literal)] = Append(@, x)]

\* the call text opens an array literal
SpellOpen == IF literal = <<>> THEN <<>> ELSE Append(literal, <<>>)

\* the call text closes its innermost array literal: under the declared
\* type it spells a container of the nesting level left below its brackets
SpellClose ==
    IF Len(literal) < 2 \/ ~HasDeclared THEN <<>>
    ELSE LET n == Len(literal)
             level == arrayLevel(Declared) - (n - 2)
             made == Value(ElemType(baseType(Declared)), level, literal[n])
         IN  [SubSeq(literal, 1, n - 1) EXCEPT ![n - 1] = Append(@, made)]

\* literal after an event that fired: newLit while the call text agrees
Spell(newLit) ==
    literal' = IF kindAgrees' /\ shapeAgrees' /\ ~l'.panic
               THEN newLit
               ELSE <<>>

WalkFuncName(text) ==
    /\ pc = "start"
    /\ l' = EnterFuncName(l, text)
    /\ funcName' = text
    /\ pc' = "args"
    /\ lastEvent' = "EnterFuncName"
    /\ UNCHANGED typeVars
    /\ UNCHANGED <<nest, topArgs, nodes, kindAgrees, shapeAgrees, frameBase,
                   emptyLiteral, literal>>
    /\ lastText' = <<>>

WalkEnterArg ==
    /\ pc = "args"
    /\ nodes < MaxNodes
    /\ \/ /\ nest = <<>>
          /\ Fire("EnterArg", EnterArg(l), <<Open("arg", 0)>>, topArgs + 1, TRUE, TRUE)
       \/ /\ TopIs("array")
          /\ Fire("EnterArg", EnterArg(l), Append(SetTop(nest, 1), Open("arg", 0)),
                  topArgs, TRUE, TRUE)
    /\ Spell(literal)
    /\ lastText' = <<>>

WalkExitArg ==
    /\ pc = "args"
    /\ TopIs("arg")
    /\ Last(nest).n = 1
    /\ Fire("ExitArg", ExitArg(l), ButLast(nest), topArgs, TRUE, TRUE)
    /\ Spell(literal)
    /\ lastText' = <<>>

\* an arg that has no literal yet
AtLiteral == pc = "args" /\ TopIs("arg") /\ Last(nest).n = 0

\* the scalars a literal text spells under the declared base type
IntSpelled(text) == IntCoercion(baseType(Declared), text).val

HexSpelled(text) == HexCoercion(baseType(Declared), text).val

IntAgrees(text) ==
    \/ KindAgrees({"IntTy"}, StrToInt(baseType(Declared), text))
    \/ KindAgrees({"UintTy"}, StrToUint(baseType(Declared), text))

BoolAgrees(text) == KindAgrees({"BoolTy"}, StrToBool(baseType(Declared), text))

StringAgrees(text) == KindAgrees({"StringTy"}, StrToStr(baseType(Declared), text))

HexAgrees(text) ==
    \/ KindAgrees({"AddressTy"}, StrToAddress(baseType(Declared), text))
    \/ KindAgrees({"HashTy"}, StrToHash(baseType(Declared), text))
    \/ KindAgrees({"BytesTy", "FixedBytesTy"}, StrToBytes(baseType(Declared), text))

WalkIntArg(text) ==
    /\ AtLiteral
    /\ Fire("EnterIntArg", EnterIntArg(l, text), SetTop(nest, 1), topArgs,
            IntAgrees(text), ScalarPlaceAgrees)
    /\ Spell(SpellValue(IntSpelled(text)))
    /\ lastText' = text

WalkBoolArg(text) ==
    /\ AtLiteral
    /\ Fire("EnterBoolArg", EnterBoolArg(l, text), SetTop(nest, 1), topArgs,
            BoolAgrees(text), ScalarPlaceAgrees)
    /\ Spell(SpellValue(StrToBool(baseType(Declared), text).val))
    /\ lastText' = text

WalkStringArg(text) ==
    /\ AtLiteral
    /\ Fire("EnterStringArg", EnterStringArg(l, text), SetTop(nest, 1), topArgs,
            StringAgrees(text), ScalarPlaceAgrees)
    /\ Spell(SpellValue(StrToStr(baseType(Declared), text).val))
    /\ lastText' = text

WalkHexArg(text) ==
    /\ AtLiteral
    /\ Fire("EnterHexArg", EnterHexArg(l, text), SetTop(nest, 1), topArgs,
            HexAgrees(text), ScalarPlaceAgrees)
    /\ Spell(SpellValue(HexSpelled(text)))
    /\ lastText' = text

WalkEnterArrayArg ==
    /\ AtLiteral
    /\ ArrayNesting(nest) < MaxNest
    /\ Fire("EnterArrayArg", EnterArrayArg(l),
            Append(SetTop(nest, 1), Open("array", 0)), topArgs,
            TRUE, BracketAgrees)
    /\ Spell(SpellOpen)
    /\ lastText' = <<>>

WalkExitArrayArg ==
    /\ pc = "args"
    /\ TopIs("array")
    /\ Fire("ExitArrayArg", ExitArrayArg(l), ButLast(nest), topArgs, TRUE, TRUE)
    /\ Spell(SpellClose)
    /\ lastText' = <<>>

\* the closing parenthesis: the walk is over
WalkEnd ==
    /\ pc = "args"
    /\ nest = <<>>
    /\ pc' = "done"
    /\ lastEvent' = "ExitStart"
    /\ UNCHANGED typeVars
    /\ UNCHANGED <<l, nest, topArgs, nodes, funcName, kindAgrees, shapeAgrees,
                   frameBase, emptyLiteral, literal>>
    /\ lastText' = <<>>

Next ==
    \/ \E text \in FuncNames : WalkFuncName(text)
    \/ WalkEnterArg
    \/ WalkExitArg
    \/ \E text \in IntTexts : WalkIntArg(text)
    \/ \E text \in BoolTexts : WalkBoolArg(text)
    \/ \E text \in StringTexts : WalkStringArg(text)
    \/ \E text \in HexTexts : WalkHexArg(text)
    \/ WalkEnterArrayArg
    \/ WalkExitArrayArg
    \/ WalkEnd

Spec == Init /\ [][Next]_vars

\* ------------------------------------------------- type introspection
\* the scalar types and the wrappers abi.Type values are built from
ScalarTypes == {Uint8, Uint256, Int16, Int256, BoolT, StringT, AddressT, FunctionT}
Wrappers == {"SliceTy", "ArrayTy"}

\* the type with the wrappers of wraps around kind, innermost first
RECURSIVE Build(_, _)
Build(kind, wraps) ==
    IF wraps = <<>> THEN kind
    ELSE [T |-> Last(wraps), Elem |-> Build(kind, ButLast(wraps))]

TypeInit ==
    /\ l = newMethodListener
    /\ pc = "start"
    /\ nest = <<>>
    /\ topArgs = 0
    /\ nodes = 0
    /\ lastEvent = "none"
    /\ funcName = ""
    /\ kindAgrees = TRUE
    /\ shapeAgrees = TRUE
    /\ frameBase = <<>>
    /\ emptyLiteral = FALSE
    /\ literal = <<<<>>>>
    /\ lastText = <<>>
    /\ tyKind \in ScalarTypes
    /\ tyWraps = <<>>
    /\ tyArg = tyKind
    /\ tyBase = NoType
    /\ tyLevel = 0
    /\ tyPc = "build"

\* one more slice or array level around the type
TypeWrap(w) ==
    /\ tyPc = "build"
    /\ Len(tyWraps) < MaxWrap
    /\ tyWraps' = Append(tyWraps, w)
    /\ tyArg' = [T |-> w, Elem |-> tyArg]
    /\ UNCHANGED <<tyKind, tyBase, tyLevel, tyPc>>
    /\ UNCHANGED walkVars

\* baseType(&input.Type)
TypeBase ==
    /\ tyPc = "build"
    /\ tyBase' = baseType(tyArg)
    /\ tyPc' = "based"
    /\ UNCHANGED <<tyKind, tyWraps, tyArg, tyLevel>>
    /\ UNCHANGED walkVars

\* arrayLevel(&input.Type)
TypeLevel ==
    /\ tyPc = "based"
    /\ tyLevel' = arrayLevel(tyArg)
    /\ tyPc' = "done"
    /\ UNCHANGED <<tyKind, tyWraps, tyArg, tyBase>>
    /\ UNCHANGED walkVars

TypeNext ==
    \/ \E w \in Wrappers : TypeWrap(w)
    \/ TypeBase
    \/ TypeLevel

TypeSpec == TypeInit /\ [][TypeNext]_vars

\* ------------------------------------------------------------ properties
Resolved == l.method # NoMethod
Declares == Len(l.method.Inputs)
IsTooManyArguments(e) == e \in {ErrTooManyArgs, ErrTooManyArgsAt}
StructuralEvents ==
    {"EnterArg", "ExitArg", "EnterIntArg", "EnterBoolArg", "EnterStringArg",
     "EnterHexArg", "EnterArrayArg", "ExitArrayArg"}
ScalarEvents == {"EnterIntArg", "EnterBoolArg", "EnterStringArg", "EnterHexArg"}

\* C1: once the sticky error is set, every further structural event leaves
\* the argument index, the array stack, the output list and the error
\* itself unchanged, and does not abort.
C1_StickyErrorFreezes ==
    [][(l.err # NoErr /\ lastEvent' \in StructuralEvents) =>
          /\ l'.curArg = l.curArg
          /\ l'.curArray = l.curArray
          /\ l'.args = l.args
          /\ l'.err = l.err
          /\ ~l'.panic
          /\ pc' = "args"]_vars

\* an unknown method name set the error, and the walk has since gone
\* through a whole nested array literal with it set
C1_Witness ==
    /\ l.err = ErrUnknownMethod
    /\ lastEvent = "ExitArrayArg"
    /\ ArrayNesting(nest) >= 1
    /\ pc = "args"

\* C2: no handler aborts mid-traversal, whatever the interface and the
\* event stream: every failure is recorded in the sticky error slot.
\* (Stated for call texts whose array literals all hold an element and
\* whose scalar literals all have a kind their parameter accepts.)
C2_NoAbort == (kindAgrees /\ ~emptyLiteral) => (pc # "aborted" /\ ~l.panic)

\* C3: a call that supplies more top-level arguments than the resolved
\* method declares ends with the TooManyArguments error (unless an earlier
\* event already set another error, which is sticky).
\* (Stated for call texts whose array literals all hold an element.)
C3_TooManyArguments ==
    (/\ pc = "done"
     /\ Resolved
     /\ topArgs > Declares
     /\ ~IsTooManyArguments(l.err)
     /\ ~emptyLiteral)
        => l.err # NoErr

\* a container nested exactly as deep as its level says
RECURSIVE WellNested(_)
WellNested(val) ==
    \/ val.level = 0
    \/ /\ val.level >= 1
       /\ \A i \in 1..Len(val.v) : val.v[i].level = val.level - 1 /\ WellNested(val.v[i])

\* C4: when the arity agrees and every literal agrees with its declared
\* type, the parse ends with no error, one value per declared parameter,
\* and the i-th value is nested exactly as deep as the i-th ArrayDepth.
\* (Stated for call texts whose array literals all hold an element.)
C4_ValidCallParses ==
    (pc = "done" /\ Resolved /\ topArgs = Declares /\ agrees /\ ~emptyLiteral) =>
        /\ l.err = NoErr
        /\ Len(l.args) = Declares
        /\ \A i \in 1..Declares :
              /\ l.args[i].level = arrayLevel(l.method.Inputs[i])
              /\ WellNested(l.args[i])

\* C5: the output list never holds more values than the resolved method
\* declares parameters.
C5_ArgsWithinDeclared == Len(l.args) <= Declares

\* a structural event appended a value beyond the first to the output list
C5_Witness == Len(l.args) = 2 /\ Declares = 2 /\ pc = "done"

\* C6: the array stack is never deeper than the ArrayDepth of the parameter
\* at the current argument index.
C6_StackWithinDepth ==
    Len(l.curArray) <= (IF HasInput(l) THEN arrayLevel(Input(l)) ELSE 0)

\* the stack was re-extended for a second inner literal of a depth-2 parameter
C6_Witness ==
    /\ Len(l.curArray) = 2
    /\ Len(l.curArray[1].v) = 1
    /\ lastEvent = "EnterArrayArg"

\* C7: an ExitArg fired for an argument nested inside an array literal
\* never changes the argument index.
C7_NestedExitArgKeepsIndex ==
    [][(lastEvent' = "ExitArg" /\ ArrayNesting(nest) >= 1)
          => l'.curArg = l.curArg]_vars

\* C8: at every top-level argument boundary of an error-free parse the
\* array stack is empty.
\* (Stated for call texts whose array literals all hold an element.)
C8_StackEmptyAtBoundary ==
    (pc \in {"args", "done"} /\ nest = <<>> /\ l.err = NoErr /\ ~emptyLiteral)
        => l.curArray = <<>>

\* C9: every scalar appended to an array frame is pushed under the base
\* type (kind and width) makeArray was given when the frame was opened.
C9_PushKeepsFrameBase ==
    [][(lastEvent' \in ScalarEvents /\ l'.curArray # l.curArray)
          => /\ Len(l'.curArray) = Len(l.curArray)
             /\ baseType(Input(l)) = Last(frameBase)]_vars

\* a second scalar was pushed into a frame of the second parameter
C9_Witness ==
    /\ l.curArg = 1
    /\ Len(l.curArray) = 1
    /\ Len(l.curArray[1].v) = 2
    /\ lastEvent \in ScalarEvents

\* C10: the function name resolves by exact name: a declared name selects
\* its descriptor, "constructor" the constructor's, and any other name sets
\* UnknownMethod, after which nothing is produced and the index stays 0.
C10_ResolvesByName ==
    pc # "start" =>
        IF funcName = "constructor" THEN l.method = Abi.Constructor
        ELSE IF funcName \in DOMAIN Abi.Methods
             THEN l.method = Abi.Methods[funcName] /\ l.method.Name = funcName
             ELSE /\ l.err = ErrUnknownMethod
                  /\ l.method = NoMethod
                  /\ l.args = <<>>
                  /\ l.curArg = 0
                  /\ ~l.panic

\* an unknown name, and the whole call text walked after it
C10_Witness ==
    /\ funcName = "missing"
    /\ pc = "done"
    /\ topArgs = 2
    /\ l.err = ErrUnknownMethod

\* the parameters of the top-level arguments walked so far are declared
\* with at most `depth` array levels
DeclaredWithin(depth) ==
    \A i \in 1..topArgs :
        i <= Declares => arrayLevel(l.method.Inputs[i]) <= depth

\* the base types of the parameters of the top-level arguments walked so
\* far are of the scalar kinds the parser has a container type for
DeclaredSupported ==
    \A i \in 1..topArgs :
        i <= Declares => ElemType(baseType(l.method.Inputs[i])) # "interface{}"

\* C11: for those scalar kinds and declared depths 0, 1 and 2, array
\* literals that agree with their declared parameters, of any number of
\* elements at each level,
\* parse without error to exactly the values the call text spells: at
\* every argument boundary no frame is open and the output list equals
\* the spelled values, container by container, with the same lengths and
\* the same left-to-right order.
C11_ArrayRoundTrip ==
    (pc \in {"args", "done"} /\ nest = <<>> /\ Resolved /\ agrees
        /\ DeclaredWithin(2) /\ DeclaredSupported)
    => (l.err = NoErr /\ l.curArray = <<>> /\ l.args = literal[1])

\* a top-level array literal has just been closed
TopLiteralClosed ==
    /\ pc = "args"
    /\ lastEvent = "ExitArrayArg"
    /\ ArrayNesting(nest) = 0
    /\ HasDeclared

\* C12: for a parameter declared with any array depth N >= 1 over a
\* supported base kind, a literal nested exactly N deep that agrees with
\* it parses without error into a container nested N deep.
C12_AnyDepthParses ==
    (TopLiteralClosed /\ Resolved /\ agrees /\ ~emptyLiteral
        /\ arrayLevel(Declared) >= 1)
    => (/\ l.err = NoErr
        /\ l.args # <<>>
        /\ Last(l.args).level = arrayLevel(Declared)
        /\ WellNested(Last(l.args)))

\* C13: a scalar that coerces but arrives while the innermost open frame
\* is a container of containers, so that its type disagrees with the
\* frame's element type, ends the event with an error in the sticky slot
\* and the listener otherwise as it was; the event does not abort the walk.
C13_TypeMismatchIsError ==
    [][(/\ lastEvent' \in ScalarEvents
        /\ l.err = NoErr
        /\ l.curArray # <<>>
        /\ Last(l.curArray).level > 1
        /\ kindAgrees'
        /\ ~emptyLiteral)
       => (/\ ~l'.panic
           /\ pc' = "args"
           /\ l'.err # NoErr
           /\ l'.curArray = l.curArray
           /\ l'.args = l.args)]_vars

\* the base kinds the type switch of each kind-checking handler accepts
IntKinds == {"IntTy", "UintTy"}
HexKinds == {"AddressTy", "HashTy", "BytesTy", "FixedBytesTy"}

\* the listener is as it was, but for the sticky error
OnlyErrChanged ==
    /\ l'.args = l.args
    /\ l'.curArray = l.curArray
    /\ l'.curArg = l.curArg
    /\ l'.method = l.method
    /\ ~l'.panic
    /\ pc' = "args"

\* C14: an integer literal against a declared base type that is no
\* integer kind, or a hex literal against one that is no address, hash or
\* bytes kind, sets the "unexpected type" error and appends nothing to the
\* output list or to any frame.
C14_UnknownScalarType ==
    [][(/\ l.err = NoErr
        /\ HasInput(l)
        /\ \/ /\ lastEvent' = "EnterIntArg"
              /\ baseType(Input(l)).T \notin IntKinds
           \/ /\ lastEvent' = "EnterHexArg"
              /\ baseType(Input(l)).T \notin HexKinds)
       => (l'.err = ErrUnexpectedType /\ OnlyErrChanged)]_vars

\* setValues([1,0x..]): a hex literal against uint8 with an element
\* already in the open frame
C14_Witness ==
    /\ lastEvent = "EnterHexArg"
    /\ l.err = ErrUnexpectedType
    /\ Len(l.curArray) = 1
    /\ Len(l.curArray[1].v) = 1
    /\ baseType(Input(l)).T = "UintTy"

\* the handler of the event has a coercion for the base type
Coerces(event, bt) ==
    /\ event = "EnterIntArg" => bt.T \in IntKinds
    /\ event = "EnterHexArg" => bt.T \in HexKinds

\* the result of the coercion the handler of the event calls
Coercion(event, bt, text) ==
    CASE event = "EnterIntArg" -> IntCoercion(bt, text)
      [] event = "EnterBoolArg" -> StrToBool(bt, text)
      [] event = "EnterStringArg" -> StrToStr(bt, text)
      [] event = "EnterHexArg" -> HexCoercion(bt, text)

\* C15: when the coercion of a scalar literal fails, the sticky error
\* becomes exactly the error the coercion returned, and the output list,
\* the array stack and the argument index stay as they were.
C15_CoercionErrorKept ==
    [][(/\ lastEvent' \in ScalarEvents
        /\ l.err = NoErr
        /\ HasInput(l)
        /\ Coerces(lastEvent', baseType(Input(l)))
        /\ Coercion(lastEvent', baseType(Input(l)), lastText').err # NoErr)
       => (/\ l'.err = Coercion(lastEvent', baseType(Input(l)), lastText').err
           /\ OnlyErrChanged)]_vars

\* setValues([1,300]): 300 is out of the range of uint8, with an element
\* already in the open frame
C15_Witness ==
    /\ lastEvent = "EnterIntArg"
    /\ lastText = 300
    /\ l.err = ErrRange
    /\ baseType(Input(l)) = Uint8
    /\ Len(l.curArray) = 1
    /\ Len(l.curArray[1].v) = 1

\* C16: after an EnterArrayArg that leaves the error slot empty, the
\* stack is as deep as the parameter at the argument index is declared:
\* the frames that were open are still there with their contents, every
\* frame the event added is an empty container of the level of its place,
\* and the output list and the argument index are unchanged.
C16_OpensDeclaredDepth ==
    [][(lastEvent' = "EnterArrayArg" /\ l.err = NoErr /\ l'.err = NoErr)
       => (/\ ~l'.panic
           /\ HasInput(l)
           /\ Len(l'.curArray) = arrayLevel(Input(l))
           /\ Len(l'.curArray) >= Len(l.curArray)
           /\ SubSeq(l'.curArray, 1, Len(l.curArray)) = l.curArray
           /\ \A i \in (Len(l.curArray) + 1)..Len(l'.curArray) :
                 l'.curArray[i] = Value(ElemType(baseType(Input(l))),
                                        arrayLevel(Input(l)) + 1 - i, <<>>)
           /\ l'.args = l.args
           /\ l'.curArg = l.curArg)]_vars

\* matrix([[1],[ : the second inner bracket re-enters with the outer frame
\* open and holding the first inner container; only the inner level is added
C16_Witness ==
    /\ lastEvent = "EnterArrayArg"
    /\ l.err = NoErr
    /\ funcName = "matrix"
    /\ Len(l.curArray) = 2
    /\ l.curArray[1].v = <<Value("uint8", 1, <<Value("uint8", 0, 1)>>)>>
    /\ l.curArray[2] = Value("uint8", 1, <<>>)

\* the effect the closing of the innermost frame has on the listener: the
\* frame is popped; without a parent its container becomes the last output
\* value, with one it becomes the last element of the parent's container
ClosesInnermost ==
    LET n == Len(l.curArray)
    IN  /\ ~l'.panic
        /\ pc' = "args"
        /\ l'.err = NoErr
        /\ n >= 1
        /\ Len(l'.curArray) = n - 1
        /\ l'.curArg = l.curArg
        /\ IF n = 1
           THEN l'.args = Append(l.args, l.curArray[1])
           ELSE /\ l'.args = l.args
                /\ SubSeq(l'.curArray, 1, n - 2) = SubSeq(l.curArray, 1, n - 2)
                /\ l'.curArray[n - 1] = AppendTo(l.curArray[n - 1], l.curArray[n])

\* C17: every ExitArrayArg that meets no error pops exactly the innermost
\* frame and hands its container to the output list (no parent) or to the
\* parent frame (output list unchanged).
C17_ExitPopsOne ==
    [][(lastEvent' = "ExitArrayArg" /\ l.err = NoErr /\ ~emptyLiteral')
       => ClosesInnermost]_vars

\* the effect a scalar literal that coerced to val has on the listener: val
\* becomes the last output value (no frame open) or the last element of
\* the innermost frame (output list and outer frames unchanged)
AppendsScalar(val) ==
    LET n == Len(l.curArray)
    IN  /\ ~l'.panic
        /\ pc' = "args"
        /\ l'.err = NoErr
        /\ l'.curArg = l.curArg
        /\ Len(l'.curArray) = n
        /\ IF n = 0
           THEN l'.args = Append(l.args, val)
           ELSE /\ l'.args = l.args
                /\ SubSeq(l'.curArray, 1, n - 1) = SubSeq(l.curArray, 1, n - 1)
                /\ l'.curArray[n] = AppendTo(l.curArray[n], val)

\* a scalar literal is handled with no error pending and its text coerces
\* against the base type of the parameter at the argument index
ScalarCoerces ==
    /\ lastEvent' \in ScalarEvents
    /\ l.err = NoErr
    /\ HasInput(l)
    /\ Coerces(lastEvent', baseType(Input(l)))
    /\ Coercion(lastEvent', baseType(Input(l)), lastText').err = NoErr

\* C18: a scalar literal that coerces against the base type of the
\* parameter at the argument index is appended at the end of the output
\* list when no frame is open and at the end of the innermost frame
\* otherwise, and nothing else changes; the argument index never changes.
C18_ScalarAppends ==
    [][(ScalarCoerces /\ kindAgrees' /\ ~emptyLiteral)
       => AppendsScalar(Coercion(lastEvent', baseType(Input(l)), lastText').val)]_vars

\* the errors of container construction
UnhandledType == {ErrUnhandledNesting, ErrUnhandledArrayType}

\* the levels EnterArrayArg has to open for the parameter at the argument
\* index
MissingLevels == arrayLevel(Input(l)) - Len(l.curArray)

\* EnterArrayArg has a level to open that container construction does not
\* implement: more than two levels, or a base kind without a container type
MeetsUnimplemented ==
    /\ lastEvent' = "EnterArrayArg"
    /\ l.err = NoErr
    /\ HasInput(l)
    /\ MissingLevels >= 1
    /\ (MissingLevels > 2 \/ ElemType(baseType(Input(l))) = "interface{}")

\* every open frame is a container that construction implements
FramesImplemented(stack) ==
    \A i \in 1..Len(stack) :
        stack[i].level \in {1, 2} /\ stack[i].T # "interface{}"

\* C19: an EnterArrayArg that meets an unimplemented (kind, level)
\* combination ends with an error of container construction, which is no
\* error of the user's input, and opens no frame at all; no frame of an
\* unimplemented combination is ever on the stack for a later scalar or
\* closing bracket to work on.
C19_UnhandledIsError ==
    [][/\ MeetsUnimplemented
          => (/\ l'.err = (IF MissingLevels > 2 THEN ErrUnhandledNesting
                                                ELSE ErrUnhandledArrayType)
              /\ l'.err \in UnhandledType
              /\ l'.err \notin {ErrUnknownMethod, ErrTooManyArgs, ErrTooManyArgsAt,
                                ErrUnexpectedType, ErrRange, ErrFormat}
              /\ OnlyErrChanged)
       /\ FramesImplemented(l'.curArray)]_vars

\* cube([ : three levels to open, none opened
C19_Witness ==
    /\ lastEvent = "EnterArrayArg"
    /\ funcName = "cube"
    /\ l.err = ErrUnhandledNesting
    /\ l.curArray = <<>>
    /\ pc = "args"

\* C20: for every type built from a scalar type and any mix of slice and
\* array wrappers, baseType returns the scalar type, which is neither a
\* slice nor an array, arrayLevel returns the number of wrappers (0 if and
\* only if the type is the plain scalar), and the argument is still the
\* type that was built.
C20_TypeIntrospection ==
    /\ tyPc \in {"based", "done"}
         => (/\ tyBase = tyKind
             /\ tyBase.T \notin Wrappers
             /\ tyArg = Build(tyKind, tyWraps))
    /\ tyPc = "done"
         => (/\ tyLevel = Len(tyWraps)
             /\ (tyLevel = 0 <=> tyArg = tyKind)
             /\ (tyLevel = 0 <=> tyArg.T \notin Wrappers)
             /\ tyArg = Build(tyKind, tyWraps))

\* uint8 in a slice in an array in a slice: a mix of three wrappers
C20_Witness ==
    /\ tyPc = "done"
    /\ tyArg = SliceOf(ArrayOf(SliceOf(Uint8)))
    /\ tyBase = Uint8
    /\ tyLevel = 3

\* C21: the frames of the stack lie outermost first with nesting levels
\* falling by one: the frame at position i (counted from 1) is a container
\* of level maxArrayLevel + 1 - i of the element type of the base type of
\* the parameter at the argument index; so the innermost frame holds
\* scalars exactly when the stack is maxArrayLevel deep, and the level
\* ExitArrayArg computes is the level of the frame it closes.
C21_StackLayout ==
    l.curArray # <<>>
    => (/\ HasInput(l)
        /\ \A i \in 1..Len(l.curArray) :
              /\ l.curArray[i].level = l.maxArrayLevel + 1 - i
              /\ l.curArray[i].T = ElemType(baseType(Input(l)))
        /\ (Last(l.curArray).level = 1 <=> Len(l.curArray) = l.maxArrayLevel)
        /\ Last(l.curArray).level = l.maxArrayLevel + 1 - Len(l.curArray))

\* pair([[1]],[true : the second array is opened with maxArrayLevel set
\* anew, after the first one had two levels
C21_Witness ==
    /\ funcName = "pair"
    /\ l.curArg = 1
    /\ l.maxArrayLevel = 1
    /\ Len(l.curArray) = 1
    /\ Len(l.args) = 1
    /\ l.args[1].level = 2
    /\ l.curArray[1] = Value("bool", 1, <<Value("bool", 0, "true")>>)

\* C22: while no error is set the output list is at most one value ahead
\* of the argument index and never behind it, and right after an ExitArg
\* that found no frame open the two are equal.
C22_Lockstep ==
    l.err = NoErr
    => (/\ l.curArg <= Len(l.args)
        /\ Len(l.args) <= l.curArg + 1
        /\ (lastEvent = "ExitArg" /\ l.curArray = <<>>)
             => Len(l.args) = l.curArg)

\* mixed(1,[1]) after the ExitArg of its second argument
C22_Witness ==
    /\ lastEvent = "ExitArg"
    /\ funcName = "mixed"
    /\ l.err = NoErr
    /\ l.curArray = <<>>
    /\ l.curArg = 2
    /\ Len(l.args) = 2
    /\ l.args[2].level = 1

\* C23: a call text that ends after fewer top-level arguments than the
\* method declares, each agreeing with its declared parameter, ends with
\* no error and with exactly one output value for each argument it held.
C23_FewerArgsNoError ==
    (pc = "done" /\ Resolved /\ agrees /\ ~emptyLiteral /\ topArgs < Declares)
    => (l.err = NoErr /\ Len(l.args) = topArgs)

\* C24: every event leaves the output list as it was or appends exactly
\* one value at its end; the values already in it stay as they are and
\* where they are.
C24_ArgsAppendOnly ==
    [][\/ l'.args = l.args
       \/ /\ Len(l'.args) = Len(l.args) + 1
          /\ SubSeq(l'.args, 1, Len(l.args)) = l.args]_vars

\* sum([1,300],[300]): the second container is built and appended with
\* the first one in the output list
C24_Witness ==
    /\ lastEvent = "ExitArrayArg"
    /\ funcName = "sum"
    /\ Len(l.args) = 2
    /\ l.args[1] = Value("*big.Int", 1, <<Value("*big.Int", 0, 1), Value("*big.Int", 0, 300)>>)
    /\ l.args[2] = Value("*big.Int", 1, <<Value("*big.Int", 0, 300)>>)
====
